---- MODULE Spec2Model ----
(***************************************************************************)
(* A model of weather.py's WeatherExtractor: the message store filled by   *)
(* load, the derived-parameter step _extend_parameters, the nearest-point  *)
(* map _calc_closest, the spatial stage _aggregate_points, the temporal    *)
(* stage _aggregate_values and the two queries get_actual / get_forecast.  *)
(*                                                                         *)
(* Numbers.  A float value is an exact fraction <<n, d>> in lowest terms   *)
(* (d > 0).  A coordinate is an integer number of 0.0001 degrees.  A       *)
(* timestamp is an integer number of slots, SlotsPerDay slots to a         *)
(* calendar day, slot 0 of a day being its midnight.                       *)
(*                                                                         *)
(* Python.  None is the empty tuple <<>> and a given optional argument x   *)
(* is <<x>>.  A helper that can raise returns a record whose field err is  *)
(* "" or the name of the exception.  Indices kept in data (closest) are    *)
(* 0-based as in the source; a sequence s is read at s[i + 1].             *)
(***************************************************************************)
EXTENDS Integers, Sequences, FiniteSets, Bags, TLC

VARIABLES
    grib_msgs,  \* self.grib_msgs: the rows of the frame, in order
    index,      \* its index: "None" (no frame), "RangeIndex", "validDateTime"
    ret,        \* the last call: its arguments, what it raised or returned
    nfiles      \* file paths given to load so far

vars == <<grib_msgs, index, ret, nfiles>>

(***************************************************************************)
(* Bounds of the model.                                                    *)
(***************************************************************************)
\* slots of a calendar day (2: 00:00 and 12:00)
SlotsPerDay == 2
\* calendar days 0 .. MaxDay
MaxDay == 1
\* a message's validity is at most MaxLead slots after its base time
MaxLead == 1
\* file paths given to load in one behaviour, over all its load calls
MaxFiles == 2
\* coordinates of the point sets given to _calc_closest are 0 .. MaxCoord
MaxCoord == 1
\* a drawn grid value is one of 1 .. MaxVal
MaxVal == 2
\* points in a point set given to _calc_closest
MaxPts == 2
\* messages in a message set given to _extend_parameters
MaxMsgs == 3

(***************************************************************************)
(* Fractions.                                                              *)
(***************************************************************************)
RECURSIVE GCD(_, _)
GCD(a, b) == IF b = 0 THEN a ELSE GCD(b, a % b)

Frac(n, d) == LET g == GCD(n, d) IN <<n \div g, d \div g>>

QInt(n) == <<n, 1>>

QAdd(p, q) == LET l == (p[2] \div GCD(p[2], q[2])) * q[2]
              IN Frac(p[1] * (l \div p[2]) + q[1] * (l \div q[2]), l)

QSub(p, q) == LET n == p[1] * q[2] - q[1] * p[2]
              IN IF n >= 0 THEN Frac(n, p[2] * q[2])
                 ELSE <<0 - Frac(0 - n, p[2] * q[2])[1], Frac(0 - n, p[2] * q[2])[2]>>

QMul(p, q) == Frac(p[1] * q[1], p[2] * q[2])

QDivInt(p, k) == Frac(p[1], p[2] * k)

RECURSIVE QSum(_)
QSum(qs) == IF qs = <<>> THEN QInt(0) ELSE QAdd(qs[1], QSum(Tail(qs)))

(***************************************************************************)
(* Sequences.                                                              *)
(***************************************************************************)
RECURSIVE SelectIdx(_, _, _)
\* the indices i of s, ascending, with keep[i]
SelectIdx(n, keep, i) ==
    IF i > n THEN <<>>
    ELSE IF keep[i] THEN <<i>> \o SelectIdx(n, keep, i + 1)
         ELSE SelectIdx(n, keep, i + 1)

Range(s) == {s[i] : i \in 1..Len(s)}

RECURSIVE SeqMin(_)
SeqMin(s) == IF Len(s) = 1 THEN s[1]
             ELSE LET m == SeqMin(Tail(s)) IN IF s[1] <= m THEN s[1] ELSE m

RECURSIVE SeqMax(_)
SeqMax(s) == IF Len(s) = 1 THEN s[1]
             ELSE LET m == SeqMax(Tail(s)) IN IF s[1] >= m THEN s[1] ELSE m

Min2(a, b) == IF a <= b THEN a ELSE b

Max2(a, b) == IF a >= b THEN a ELSE b

(***************************************************************************)
(* _calc_closest: for each point (lats[i], lons[i]) the 0-based index of   *)
(* the closest target point.                                               *)
(***************************************************************************)
Dist2(lat, lon, tlat, tlon) ==
    (lat - tlat) * (lat - tlat) + (lon - tlon) * (lon - tlon)

\* the comparison of the inner loop taken as <= : a later target wins a tie
RECURSIVE ScanTargetsLast(_, _, _, _, _, _, _)
ScanTargetsLast(lat, lon, target_lats, target_lons, j, best_dist, best) ==
    IF j >= Len(target_lats) THEN best
    ELSE LET curr_dist == Dist2(lat, lon, target_lats[j + 1], target_lons[j + 1])
         IN IF curr_dist <= best_dist
            THEN ScanTargetsLast(lat, lon, target_lats, target_lons, j + 1, curr_dist, j)
            ELSE ScanTargetsLast(lat, lon, target_lats, target_lons, j + 1, best_dist, best)

\* the inner loop "for j in range(1, num_target)": j is the 0-based index
RECURSIVE ScanTargets(_, _, _, _, _, _, _)
ScanTargets(lat, lon, target_lats, target_lons, j, best_dist, best) ==
    IF j >= Len(target_lats) THEN best
    ELSE LET curr_dist == Dist2(lat, lon, target_lats[j + 1], target_lons[j + 1])
         IN IF curr_dist < best_dist
            THEN ScanTargets(lat, lon, target_lats, target_lons, j + 1, curr_dist, j)
            ELSE ScanTargets(lat, lon, target_lats, target_lons, j + 1, best_dist, best)

\* closest = zeros(num_points); per i the scan starts from target 0
CalcClosest(lats, lons, target_lats, target_lons) ==
    [i \in 1..Len(lats) |->
        ScanTargets(lats[i], lons[i], target_lats, target_lons, 1,
                    Dist2(lats[i], lons[i], target_lats[1], target_lons[1]), 0)]

(***************************************************************************)
(* _interpolate_values: the values of one message at the target points.    *)
(***************************************************************************)
Raise(e) == [err |-> e, rows |-> <<>>]

\* the 0-based positions i < num_original whose closest target is t
SourcesOf(closest, num_original, t) ==
    {i \in 0..(num_original - 1) : closest[i + 1] = t}

RECURSIVE SumAt(_, _, _)
\* values[0] + ... over the positions i < n that are in the set at
SumAt(values, at, n) ==
    IF n = 0 THEN QInt(0)
    ELSE IF (n - 1) \in at THEN QAdd(SumAt(values, at, n - 1), values[n])
         ELSE SumAt(values, at, n - 1)

\* the value at target i taken by position in the grid, the closest map
\* not consulted
LookupOneByPosition(values, closest, i) ==
    IF i <= Len(values) THEN values[i] ELSE values[closest[i] + 1]

\* line 387: result_values[i] = values[closest[i]]
LookupOne(values, closest, i) == values[closest[i] + 1]

InterpolateValues(values, closest, num_original, num_targets, aggtype) ==
    IF aggtype = "one"
    THEN IF \E i \in 1..num_targets : closest[i] + 1 > Len(values)
         THEN [err |-> "IndexError", values |-> <<>>]
         ELSE [err |-> "",
               values |-> [i \in 1..num_targets |-> LookupOne(values, closest, i)]]
    ELSE IF aggtype = "mean"
    THEN IF num_original > Len(values)
         THEN [err |-> "IndexError", values |-> <<>>]
         ELSE [err |-> "",
               values |-> [t \in 1..num_targets |->
                   LET at == SourcesOf(closest, num_original, t - 1)
                       result_count == IF Cardinality(at) = 0 THEN 1
                                       ELSE Cardinality(at)
                   IN QDivInt(SumAt(values, at, num_original), result_count)]]
    ELSE [err |-> "", values |-> [t \in 1..num_targets |-> QInt(0)]]

(***************************************************************************)
(* _aggregate_points: the spatial stage.                                   *)
(***************************************************************************)
\* the centre of Slovenia, 46.1512 N 14.9955 E, in 0.0001 degrees
CountryLat == 461512

CountryLon == 149955

AggLocs == {"grid", "points", "country", "bbox"}

AggTypes == {"one", "mean"}

\* lines 478-507: closest, then one output row per input row
InterpolateRows(weather_result, lats, lons, target_lats, target_lons, aggtype) ==
    IF aggtype = "one" /\ Len(target_lats) > 0 /\ Len(lats) = 0
    THEN Raise("IndexError")
    ELSE IF aggtype = "mean" /\ Len(lats) > 0 /\ Len(target_lats) = 0
    THEN Raise("IndexError")
    ELSE LET closest == IF aggtype = "one"
                        THEN CalcClosest(target_lats, target_lons, lats, lons)
                        ELSE CalcClosest(lats, lons, target_lats, target_lons)
             num_original == Len(lats)
             num_targets == Len(target_lats)
             out == [k \in 1..Len(weather_result) |->
                       InterpolateValues(weather_result[k].values, closest,
                                         num_original, num_targets, aggtype)]
         IN IF \E k \in 1..Len(weather_result) : out[k].err # ""
            THEN Raise("IndexError")
            ELSE [err |-> "",
                  rows |-> [k \in 1..Len(weather_result) |->
                              [weather_result[k] EXCEPT !.values = out[k].values,
                                                        !.lats = target_lats,
                                                        !.lons = target_lons]]]

\* the test of line 461 with strict comparisons: the open rectangle
InBoxStrict(lat, lon, bb_min_lat, bb_max_lat, bb_min_lon, bb_max_lon) ==
    /\ bb_min_lat < lat /\ lat < bb_max_lat
    /\ bb_min_lon < lon /\ lon < bb_max_lon

\* line 461: the point is in the closed rectangle
InBox(lat, lon, bb_min_lat, bb_max_lat, bb_min_lon, bb_max_lon) ==
    /\ bb_min_lat <= lat /\ lat <= bb_max_lat
    /\ bb_min_lon <= lon /\ lon <= bb_max_lon

\* the checks of lines 454-455 alone: the longitudes are not looked at
BoxWithinDataLatOnly(lats, lons, bb_min_lat, bb_max_lat, bb_min_lon, bb_max_lon) ==
    /\ SeqMin(lats) <= bb_min_lat /\ bb_min_lat <= SeqMax(lats)
    /\ SeqMin(lats) <= bb_max_lat /\ bb_max_lat <= SeqMax(lats)

\* lines 451-457: every edge of the rectangle is within the data area
BoxWithinData(lats, lons, bb_min_lat, bb_max_lat, bb_min_lon, bb_max_lon) ==
    /\ SeqMin(lats) <= bb_min_lat /\ bb_min_lat <= SeqMax(lats)
    /\ SeqMin(lats) <= bb_max_lat /\ bb_max_lat <= SeqMax(lats)
    /\ SeqMin(lons) <= bb_min_lon /\ bb_min_lon <= SeqMax(lons)
    /\ SeqMin(lons) <= bb_max_lon /\ bb_max_lon <= SeqMax(lons)

\* lines 441-465 and 473-476: the rectangle, its checks, the points in it
AggregateBbox(weather_result, aggtype, bounding_box) ==
    IF bounding_box = <<>> THEN Raise("AssertionError")
    ELSE LET lats == weather_result[1].lats
             lons == weather_result[1].lons
             bb == bounding_box[1]
             bb_min_lat == Min2(bb[1][1], bb[2][1])
             bb_max_lat == Max2(bb[1][1], bb[2][1])
             bb_min_lon == Min2(bb[1][2], bb[2][2])
             bb_max_lon == Max2(bb[1][2], bb[2][2])
             keep == [i \in 1..Len(lats) |->
                        InBox(lats[i], lons[i], bb_min_lat, bb_max_lat,
                              bb_min_lon, bb_max_lon)]
             idx == SelectIdx(Len(lats), keep, 1)
             tmp_lats == [k \in 1..Len(idx) |-> lats[idx[k]]]
             tmp_lons == [k \in 1..Len(idx) |-> lons[idx[k]]]
             mid_bbox == <<(bb_min_lat + bb_max_lat) \div 2,
                           (bb_min_lon + bb_max_lon) \div 2>>
         IN IF ~BoxWithinData(lats, lons, bb_min_lat, bb_max_lat,
                              bb_min_lon, bb_max_lon)
            THEN Raise("AssertionError")
            ELSE IF Len(tmp_lats) = 0 THEN Raise("AssertionError")
            ELSE InterpolateRows(weather_result, tmp_lats, tmp_lons,
                                 <<mid_bbox[1]>>, <<mid_bbox[2]>>, aggtype)

\* lines 433-437: the assertions on the arguments
AssertsFail(weather_result, aggloc, aggtype, interp_points) ==
    \/ aggloc \notin AggLocs
    \/ aggtype \notin AggTypes
    \/ (aggloc = "points" /\ interp_points = <<>>)
    \/ Len(weather_result) = 0

\* lines 439-507, the assertions passed
AggregateAsserted(weather_result, aggloc, aggtype, interp_points, bounding_box) ==
    IF aggloc = "bbox"
    THEN AggregateBbox(weather_result, aggtype, bounding_box)
    ELSE IF aggloc = "grid" THEN [err |-> "", rows |-> weather_result]
    ELSE IF aggloc = "points"
    THEN InterpolateRows(weather_result, weather_result[1].lats, weather_result[1].lons,
                         interp_points[1][1], interp_points[1][2], aggtype)
    ELSE InterpolateRows(weather_result, weather_result[1].lats, weather_result[1].lons,
                         <<CountryLat>>, <<CountryLon>>, aggtype)

\* the "no aggregation" return of aggloc 'grid' taken before the assertions
AggregatePointsGridFirst(weather_result, aggloc, aggtype, interp_points, bounding_box) ==
    IF aggloc = "grid" THEN [err |-> "", rows |-> weather_result]
    ELSE IF AssertsFail(weather_result, aggloc, aggtype, interp_points)
    THEN Raise("AssertionError")
    ELSE AggregateAsserted(weather_result, aggloc, aggtype, interp_points, bounding_box)

AggregatePoints(weather_result, aggloc, aggtype, interp_points, bounding_box) ==
    IF AssertsFail(weather_result, aggloc, aggtype, interp_points)
    THEN Raise("AssertionError")
    ELSE AggregateAsserted(weather_result, aggloc, aggtype, interp_points, bounding_box)

(***************************************************************************)
(* _extend_parameters: the derived-parameter step.                         *)
(***************************************************************************)
\* v[i] of a numpy array under broadcasting: a one-element array repeats
At(v, i) == IF Len(v) = 1 THEN v[1] ELSE v[i]

\* the length of an elementwise result, 0 - 1 when the shapes do not agree
BroadcastLen(a, b) ==
    IF Len(a) = Len(b) THEN Len(a)
    ELSE IF Len(a) = 1 THEN Len(b)
    ELSE IF Len(b) = 1 THEN Len(a)
    ELSE 0 - 1

RECURSIVE BroadcastLenAll(_)
BroadcastLenAll(vs) ==
    IF Len(vs) = 1 THEN Len(vs[1])
    ELSE LET n == BroadcastLenAll(Tail(vs))
         IN IF n < 0 THEN n
            ELSE IF Len(vs[1]) = n THEN n
            ELSE IF Len(vs[1]) = 1 THEN n
            ELSE IF n = 1 THEN Len(vs[1])
            ELSE 0 - 1

RECURSIVE ISqrtIn(_, _, _)
\* the largest k in lo .. hi with k * k <= x
ISqrtIn(x, lo, hi) ==
    IF lo >= hi THEN lo
    ELSE LET mid == (lo + hi + 1) \div 2
         IN IF mid * mid <= x THEN ISqrtIn(x, mid, hi) ELSE ISqrtIn(x, lo, mid - 1)

\* np.sqrt, to two decimals (rounded down)
QSqrt(q) == Frac(ISqrtIn((q[1] * 10000) \div q[2], 0, 40000), 100)

\* np.exp((17.625 * T) / (243.04 + T)) to one decimal (1.0, 2.0067.., 3.8194..),
\* for the Celsius temperatures 0, 10 and 20 the model's 2t and 2d values give
MagnusExp(T) ==
    CASE T = QInt(0) -> Frac(10, 10)
      [] T = QInt(10) -> Frac(20, 10)
      [] T = QInt(20) -> Frac(38, 10)
      [] OTHER -> QInt(1)

\* T0 = 273.15
T0 == Frac(27315, 100)

\* 100 * (exp(..T_dew..) / exp(..T_surface..)) at one grid point
RelHum(t_dew, t_surface) ==
    LET a == MagnusExp(t_dew)
        b == MagnusExp(t_surface)
    IN QMul(QInt(100), Frac(a[1] * b[2], a[2] * b[1]))

GroupKey(m) == <<m.validDateTime, m.validityDateTime>>

KeyLess(a, b) == a[1] < b[1] \/ (a[1] = b[1] /\ a[2] < b[2])

RECURSIVE SortedKeys(_)
\* the keys of a set, ascending: the order of the groups of a groupby
SortedKeys(K) ==
    IF K = {} THEN <<>>
    ELSE LET k == CHOOSE x \in K : \A y \in K \ {x} : KeyLess(x, y)
         IN <<k>> \o SortedKeys(K \ {k})

CurrParams(msgs) == {msgs[i].shortName : i \in 1..Len(msgs)}

HasName(m, names) == m.shortName \in names

\* grib_msgs[(shortName == a) | (shortName == b)].groupby([validDateTime,
\* validityDateTime]): the groups in key order, each with its rows in order
GroupsOf(msgs, names) ==
    LET sub == SelectIdx(Len(msgs), [i \in 1..Len(msgs) |-> HasName(msgs[i], names)], 1)
        rows == [k \in 1..Len(sub) |-> msgs[sub[k]]]
        keys == SortedKeys({GroupKey(rows[k]) : k \in 1..Len(rows)})
    IN [g \in 1..Len(keys) |->
          LET at == SelectIdx(Len(rows),
                              [k \in 1..Len(rows) |-> GroupKey(rows[k]) = keys[g]], 1)
          IN [k \in 1..Len(at) |-> rows[at[k]]]]

\* the guard of the wind-speed block without its "not 'ws' in curr_params"
NeedsWsAgain(curr_params) ==
    "10u" \in curr_params /\ "10v" \in curr_params

NeedsWs(curr_params) ==
    "10u" \in curr_params /\ "10v" \in curr_params /\ ~("ws" \in curr_params)

NeedsRh(curr_params) ==
    "2t" \in curr_params /\ "2d" \in curr_params /\ ~("rh" \in curr_params)

\* np.sqrt(np.sum(v*v for v in tf['values']))
WsValues(tf) ==
    LET vs == [k \in 1..Len(tf) |-> tf[k].values]
        n == BroadcastLenAll(vs)
    IN [i \in 1..n |->
          QSqrt(QSum([k \in 1..Len(vs) |-> QMul(At(vs[k], i), At(vs[k], i))]))]

WsMessage(tf) ==
    [shortName |-> "ws", values |-> WsValues(tf),
     validDateTime |-> tf[1].validDateTime,
     validityDateTime |-> tf[1].validityDateTime,
     lats |-> tf[1].lats, lons |-> tf[1].lons, type |-> tf[1].type]

FirstOf(tf, name) ==
    LET at == SelectIdx(Len(tf), [k \in 1..Len(tf) |-> tf[k].shortName = name], 1)
    IN tf[at[1]]

RhMessage(tf) ==
    LET T_surface == FirstOf(tf, "2t").values
        T_dew == FirstOf(tf, "2d").values
        n == BroadcastLen(T_surface, T_dew)
    IN [shortName |-> "rh",
        values |-> [i \in 1..n |-> RelHum(QSub(At(T_dew, i), T0),
                                          QSub(At(T_surface, i), T0))],
        validDateTime |-> tf[1].validDateTime,
        validityDateTime |-> tf[1].validityDateTime,
        lats |-> tf[1].lats, lons |-> tf[1].lons, type |-> tf[1].type]

\* the wind-speed block keeping only the new messages: the frame is
\* assigned the ws messages, not appended with them
ExtendWsReplacing(grib_msgs_, curr_params) ==
    IF NeedsWs(curr_params)
    THEN LET grp == GroupsOf(grib_msgs_, {"10u", "10v"})
         IN [err |-> "", msgs |-> [g \in 1..Len(grp) |-> WsMessage(grp[g])]]
    ELSE [err |-> "", msgs |-> grib_msgs_]

\* lines 283-301: the wind-speed block
ExtendWs(grib_msgs_, curr_params) ==
    IF NeedsWs(curr_params)
    THEN LET grp == GroupsOf(grib_msgs_, {"10u", "10v"})
         IN IF \E g \in 1..Len(grp) :
                  BroadcastLenAll([k \in 1..Len(grp[g]) |-> grp[g][k].values]) < 0
            THEN [err |-> "ValueError", msgs |-> grib_msgs_]
            ELSE [err |-> "",
                  msgs |-> grib_msgs_ \o [g \in 1..Len(grp) |-> WsMessage(grp[g])]]
    ELSE [err |-> "", msgs |-> grib_msgs_]

\* lines 303-328: the relative-humidity block
ExtendRh(grib_msgs_, curr_params) ==
    IF NeedsRh(curr_params)
    THEN LET grp == GroupsOf(grib_msgs_, {"2t", "2d"})
         IN IF \E g \in 1..Len(grp) :
                  \/ ~(\E k \in 1..Len(grp[g]) : grp[g][k].shortName = "2t")
                  \/ ~(\E k \in 1..Len(grp[g]) : grp[g][k].shortName = "2d")
            THEN [err |-> "IndexError", msgs |-> grib_msgs_]
            ELSE IF \E g \in 1..Len(grp) :
                  BroadcastLen(FirstOf(grp[g], "2t").values,
                               FirstOf(grp[g], "2d").values) < 0
            THEN [err |-> "ValueError", msgs |-> grib_msgs_]
            ELSE [err |-> "",
                  msgs |-> grib_msgs_ \o [g \in 1..Len(grp) |-> RhMessage(grp[g])]]
    ELSE [err |-> "", msgs |-> grib_msgs_]

ExtendParameters(grib_msgs_) ==
    LET curr_params == CurrParams(grib_msgs_)
        w == ExtendWs(grib_msgs_, curr_params)
    IN IF w.err # "" THEN w ELSE ExtendRh(w.msgs, curr_params)

(***************************************************************************)
(* The state after construction: self.grib_msgs = None.                    *)
(***************************************************************************)
Idle == [op |-> "idle", err |-> ""]

Init ==
    /\ grib_msgs = <<>>
    /\ index = "None"
    /\ ret = Idle
    /\ nfiles = 0

(***************************************************************************)
(* The native grid of the grib messages: four points in this order, the    *)
(* third strictly inside the rectangle the others span.                    *)
(***************************************************************************)
GridLats == <<460000, 462000, 461000, 460000>>

GridLons == <<148000, 150000, 149000, 150000>>

\* the coordinates a rectangle's corners are drawn from: below the grid, its
\* lowest value, between two grid values, its highest value
BoxLatVals == {458000, 460000, 460500, 462000}

BoxLonVals == {146000, 148000, 148500, 150000}

BoundingBoxes ==
    {<<<<a, b>>, <<c, d>>>> : a \in BoxLatVals, b \in BoxLonVals,
                              c \in BoxLatVals, d \in BoxLonVals}

\* target point lists, as the (lats, lons) pair _latslons_from_dict makes:
\* the empty list, a grid point, a point off the grid, and both in two orders
InterpPoints ==
    { <<<<>>, <<>>>>,
      <<<<461000>>, <<149000>>>>,
      <<<<460200>>, <<149600>>>>,
      <<<<461000, 460200>>, <<149000, 149600>>>>,
      <<<<460200, 461000>>, <<149600, 149000>>>> }

(***************************************************************************)
(* The messages the model loads.  A message of a parameter carries that    *)
(* parameter's values on the native grid: wind components in m/s,          *)
(* temperatures in kelvin.                                                 *)
(***************************************************************************)
Kelvin(c) == QAdd(QInt(c), T0)

ValuesOf(name) ==
    CASE name = "10u" -> <<QInt(3), QInt(0), QInt(3), QInt(0)>>
      [] name = "10v" -> <<QInt(4), QInt(4), QInt(0), QInt(0)>>
      [] name = "2t" -> <<Kelvin(20), Kelvin(20), Kelvin(10), Kelvin(10)>>
      [] name = "2d" -> <<Kelvin(10), Kelvin(20), Kelvin(10), Kelvin(0)>>
      [] name = "ws" -> <<QInt(6), QInt(6), QInt(6), QInt(6)>>
      [] name = "rh" -> <<QInt(50), QInt(50), QInt(50), QInt(50)>>
      [] OTHER -> <<QInt(1), QInt(2), QInt(3), QInt(4)>>

\* marsType: an analysis is valid at its base time, a forecast later
Msg(name, vdt, vty) ==
    [shortName |-> name, values |-> ValuesOf(name),
     validDateTime |-> vdt, validityDateTime |-> vty,
     lats |-> GridLats, lons |-> GridLons,
     type |-> IF vty = vdt THEN "an" ELSE "fc"]

(***************************************************************************)
(* _extend_parameters as a pure function: the message set is drawn in the  *)
(* initial state; the function is applied to it and then to its result.    *)
(***************************************************************************)
ExtNames == {"10u", "10v", "2t", "2d", "ws", "rh"}

ExtMsgs == {Msg(n, 0, l) : n \in ExtNames, l \in 0..MaxLead}

MessageSets == UNION {[1..n -> ExtMsgs] : n \in 0..MaxMsgs}

InitExtend ==
    /\ grib_msgs \in MessageSets
    /\ index = "RangeIndex"
    /\ nfiles = 0
    /\ ret = [op |-> "args", err |-> "", n |-> 0, input |-> <<>>, msgs |-> <<>>]

CallExtend ==
    /\ ret.op = "args"
    /\ LET r == ExtendParameters(grib_msgs)
       IN ret' = [op |-> "_extend_parameters", err |-> r.err, n |-> 1,
                  input |-> grib_msgs,
                  msgs |-> IF r.err = "" THEN r.msgs ELSE <<>>]
    /\ UNCHANGED <<grib_msgs, index, nfiles>>

CallExtendAgain ==
    /\ ret.op = "_extend_parameters"
    /\ ret.n = 1
    /\ ret.err = ""
    /\ LET r == ExtendParameters(ret.msgs)
       IN ret' = [op |-> "_extend_parameters", err |-> r.err, n |-> 2,
                  input |-> ret.msgs,
                  msgs |-> IF r.err = "" THEN r.msgs ELSE <<>>]
    /\ UNCHANGED <<grib_msgs, index, nfiles>>

NextExtend == CallExtend \/ CallExtendAgain

SpecExtend == InitExtend /\ [][NextExtend]_vars

\* C9: the derived-parameter step is idempotent: applied to its own result
\* it raises nothing, adds no message and changes none.
C9_ExtendIdempotent ==
    (ret.op = "_extend_parameters" /\ ret.n = 2) =>
        (ret.err = "" /\ ret.msgs = ret.input)

\* the first application added a ws message to a set that already held an
\* rh message, and the second application was made
C9_Witness ==
    /\ ret.op = "_extend_parameters"
    /\ ret.n = 2
    /\ Len(ret.input) = Len(grib_msgs) + 1
    /\ "ws" \in CurrParams(ret.input) \ CurrParams(grib_msgs)
    /\ "rh" \in CurrParams(grib_msgs)

(***************************************************************************)
(* _aggregate_points as a pure function: one message on the native grid,   *)
(* its values drawn, and the aggregation arguments.                        *)
(***************************************************************************)
GridValues == [1..Len(GridLats) -> {QInt(v) : v \in 1..MaxVal}]

AggArgs ==
    {[aggloc |-> "grid", interp_points |-> <<>>, bounding_box |-> <<>>],
     [aggloc |-> "country", interp_points |-> <<>>, bounding_box |-> <<>>],
     [aggloc |-> "points", interp_points |-> <<>>, bounding_box |-> <<>>],
     [aggloc |-> "bbox", interp_points |-> <<>>, bounding_box |-> <<>>]}
    \cup {[aggloc |-> "points", interp_points |-> <<p>>, bounding_box |-> <<>>] :
            p \in InterpPoints}
    \cup {[aggloc |-> "bbox", interp_points |-> <<>>, bounding_box |-> <<b>>] :
            b \in BoundingBoxes}

InitAgg ==
    /\ grib_msgs = <<>>
    /\ index = "None"
    /\ nfiles = 0
    /\ \E v \in GridValues, a \in AggArgs, t \in AggTypes :
          ret = [op |-> "args", err |-> "", rows |-> <<>>,
                 weather_result |-> <<[shortName |-> "2t", values |-> v,
                                       validDateTime |-> 0, validityDateTime |-> 0,
                                       lats |-> GridLats, lons |-> GridLons]>>,
                 aggloc |-> a.aggloc, aggtype |-> t,
                 interp_points |-> a.interp_points,
                 bounding_box |-> a.bounding_box]

CallAggregatePoints ==
    /\ ret.op = "args"
    /\ LET r == AggregatePoints(ret.weather_result, ret.aggloc, ret.aggtype,
                                ret.interp_points, ret.bounding_box)
       IN ret' = [ret EXCEPT !.op = "_aggregate_points", !.err = r.err,
                             !.rows = r.rows]
    /\ UNCHANGED <<grib_msgs, index, nfiles>>

NextAgg == CallAggregatePoints

SpecAgg == InitAgg /\ [][NextAgg]_vars

\* the 1-based grid positions inside the closed rectangle with corners bb
InsideBox(lats, lons, bb) ==
    {i \in 1..Len(lats) :
        /\ Min2(bb[1][1], bb[2][1]) <= lats[i] /\ lats[i] <= Max2(bb[1][1], bb[2][1])
        /\ Min2(bb[1][2], bb[2][2]) <= lons[i] /\ lons[i] <= Max2(bb[1][2], bb[2][2])}

RECURSIVE QSumOver(_, _)
QSumOver(values, at) ==
    IF at = {} THEN QInt(0)
    ELSE LET i == CHOOSE x \in at : TRUE
         IN QAdd(values[i], QSumOver(values, at \ {i}))

\* C1: in bbox mode with policy mean, the single output value of every
\* message is the arithmetic mean of that message's values at the grid
\* points inside the rectangle (the rectangle taken closed, as the code
\* selects), whatever positions those points have in the grid order.
C1_BboxMeanOfInsidePoints ==
    (ret.op = "_aggregate_points" /\ ret.aggloc = "bbox" /\ ret.aggtype = "mean"
        /\ ret.err = "") =>
        \A k \in 1..Len(ret.rows) :
            LET in == InsideBox(ret.weather_result[k].lats,
                                ret.weather_result[k].lons, ret.bounding_box[1])
            IN ret.rows[k].values =
                 <<QDivInt(QSumOver(ret.weather_result[k].values, in),
                           Cardinality(in))>>

(***************************************************************************)
(* _calc_closest as a pure function: the point sets are drawn in the       *)
(* initial state and the one action applies the function.                  *)
(***************************************************************************)
Coords == 0..MaxCoord

PointSets == UNION {[1..n -> Coords \X Coords] : n \in 1..MaxPts}

Lats(ps) == [i \in 1..Len(ps) |-> ps[i][1]]

Lons(ps) == [i \in 1..Len(ps) |-> ps[i][2]]

InitGeo ==
    /\ grib_msgs = <<>>
    /\ index = "None"
    /\ nfiles = 0
    /\ \E S \in PointSets, T \in PointSets :
          ret = [op |-> "args", err |-> "", source |-> S, target |-> T]

CallCalcClosest ==
    /\ ret.op = "args"
    /\ ret' = [op |-> "_calc_closest", err |-> "",
               source |-> ret.source, target |-> ret.target,
               closest |-> CalcClosest(Lats(ret.source), Lons(ret.source),
                                       Lats(ret.target), Lons(ret.target))]
    /\ UNCHANGED <<grib_msgs, index, nfiles>>

NextGeo == CallCalcClosest

SpecGeo == InitGeo /\ [][NextGeo]_vars

\* C8: for non-empty source and target point sets, _calc_closest gives for
\* every source index i a target index j whose squared distance to source i
\* is minimal, and no target of a lower index reaches that minimum; also
\* when either set has exactly one point.
C8_ClosestIsFirstMinimum ==
    ret.op = "_calc_closest" =>
        /\ Len(ret.closest) = Len(ret.source)
        /\ \A i \in 1..Len(ret.source) :
             LET j == ret.closest[i]
                 d(k) == Dist2(ret.source[i][1], ret.source[i][2],
                               ret.target[k + 1][1], ret.target[k + 1][2])
             IN /\ j \in 0..(Len(ret.target) - 1)
                /\ \A k \in 0..(Len(ret.target) - 1) : d(j) <= d(k)
                /\ \A k \in 0..(j - 1) : d(k) > d(j)

\* two distinct targets tie for a source and the lower index is returned;
\* the source set has one point
C8_Witness ==
    /\ ret.op = "_calc_closest"
    /\ Len(ret.source) = 1
    /\ Len(ret.target) = 2
    /\ ret.target[1] # ret.target[2]
    /\ Dist2(ret.source[1][1], ret.source[1][2], ret.target[1][1], ret.target[1][2])
         = Dist2(ret.source[1][1], ret.source[1][2], ret.target[2][1], ret.target[2][2])
    /\ ret.closest[1] = 0

(***************************************************************************)
(* Time.                                                                   *)
(***************************************************************************)
\* .dt.date of a timestamp
Date(t) == t \div SlotsPerDay

\* a datetime.date used as an index label: the timestamp of its midnight
Midnight(d) == d * SlotsPerDay

Days == 0..MaxDay

(***************************************************************************)
(* The files of the model.  A file has the suffix of its kind and holds    *)
(* the messages of one (validDateTime, validityDateTime) group; a file     *)
(* that does not exist cannot be read.                                     *)
(***************************************************************************)
\* _load_from_owmjson: one list entry; validDateTime is the midnight of the
\* entry's day, the grid is the city's one point.  Of the seven parameters
\* of an entry the model keeps 2t, rh and ws (sp, tcc, tp and sf enter no
\* rule and no filter).
OwmMsg(name, v, day, vty) ==
    [shortName |-> name, values |-> <<QInt(v)>>,
     validDateTime |-> Midnight(day), validityDateTime |-> vty,
     lats |-> <<461000>>, lons |-> <<149000>>, type |-> "fc"]

OwmMessages(day, vty) ==
    <<OwmMsg("2t", 280, day, vty), OwmMsg("rh", 1, day, vty),
      OwmMsg("ws", 2, day, vty)>>

GroupFile(kind, names, vdt, vty) ==
    [kind |-> kind, exists |-> TRUE,
     msgs |-> [k \in 1..Len(names) |-> Msg(names[k], vdt, vty)]]

Files ==
    { \* day 0, 00:00, an analysis: both wind components
      GroupFile("grib", <<"10u", "10v">>, Midnight(0), Midnight(0)),
      \* day 0, 00:00, valid MaxLead slots later: only 10u
      GroupFile("grib", <<"10u">>, Midnight(0), Midnight(0) + MaxLead),
      \* last day, after midnight: both wind components
      GroupFile("grib", <<"10u", "10v">>, Midnight(MaxDay) + 1, Midnight(MaxDay) + 1),
      \* day 0, its last slot, valid the next day: temperature and dew point
      GroupFile("grib", <<"2t", "2d">>, Midnight(1) - 1, Midnight(1) - 1 + MaxLead),
      \* last day, 00:00: only the dew point
      GroupFile("grib", <<"2d">>, Midnight(MaxDay), Midnight(MaxDay)),
      \* a pickled frame: all four base parameters, not extended
      GroupFile("pkl", <<"10u", "10v", "2t", "2d">>, Midnight(MaxDay), Midnight(MaxDay) + 1),
      \* an OpenWeatherMap response
      [kind |-> "json", exists |-> TRUE, msgs |-> OwmMessages(0, Midnight(0) + 1)],
      \* a path with no file behind it
      [kind |-> "grib", exists |-> FALSE, msgs |-> <<>>] }

Formats == {"grib", "pkl", "owm", "xml"}

\* lines 220-237: the format inferred from the suffixes
InferFormat(filepaths) ==
    IF \A i \in 1..Len(filepaths) : filepaths[i].kind = "grib" THEN "grib"
    ELSE IF \A i \in 1..Len(filepaths) : filepaths[i].kind = "pkl" THEN "pkl"
    ELSE IF \A i \in 1..Len(filepaths) : filepaths[i].kind = "json" THEN "owm"
    ELSE "?"

\* lines 242-249: the reader of the format applied to one file; grib_reader
\* is set only where the format was inferred (lines 219-230), and
\* _load_from_grib subscripts it (line 107)
ReadFile(file, format, grib_reader) ==
    IF format \notin {"grib", "pkl", "owm"} THEN [err |-> "ValueError", msgs |-> <<>>]
    ELSE IF format = "grib" /\ ~grib_reader THEN [err |-> "TypeError", msgs |-> <<>>]
    ELSE IF ~file.exists THEN [err |-> "IOError", msgs |-> <<>>]
    ELSE IF (format = "grib" /\ file.kind # "grib")
            \/ (format = "pkl" /\ file.kind # "pkl")
            \/ (format = "owm" /\ file.kind # "json")
    THEN [err |-> "DecodeError", msgs |-> <<>>]
    ELSE [err |-> "", msgs |-> file.msgs]

\* the loop over the files replacing the store by each file read, not
\* appending to it
RECURSIVE ReadFilesReplacing(_, _, _, _)
ReadFilesReplacing(st, filepaths, format, i) ==
    IF i > Len(filepaths) THEN st
    ELSE LET r == ReadFile(filepaths[i], format, st.grib_reader)
         IN IF r.err # "" THEN [st EXCEPT !.err = r.err]
            ELSE ReadFilesReplacing([st EXCEPT !.msgs = st.loaded \o r.msgs,
                                               !.index = "RangeIndex",
                                               !.loaded = st.loaded \o r.msgs],
                                    filepaths, format, i + 1)

RECURSIVE ReadFiles(_, _, _, _)
\* lines 239-258: the loop over the files; st is what the call has done so
\* far (self.grib_msgs, its index, the messages read); a file that cannot
\* be read ends the loop with the earlier files appended
ReadFiles(st, filepaths, format, i) ==
    IF i > Len(filepaths) THEN st
    ELSE LET r == ReadFile(filepaths[i], format, st.grib_reader)
         IN IF r.err # "" THEN [st EXCEPT !.err = r.err]
            ELSE ReadFiles([st EXCEPT !.msgs = st.msgs \o r.msgs,
                                      !.index = "RangeIndex",
                                      !.loaded = st.loaded \o r.msgs],
                           filepaths, format, i + 1)

RECURSIVE InsertByBase(_, _)
InsertByBase(m, sorted) ==
    IF sorted = <<>> THEN <<m>>
    ELSE IF m.validDateTime < sorted[1].validDateTime THEN <<m>> \o sorted
         ELSE <<sorted[1]>> \o InsertByBase(m, Tail(sorted))

\* the frame left in the order of the rows, sort_index not applied
SortIndexSkipped(msgs) == msgs

RECURSIVE SortIndex(_)
\* sort_index on validDateTime; rows of one validDateTime keep their order
\* (numpy sorts the short arrays of the model by insertion)
SortIndex(msgs) ==
    IF msgs = <<>> THEN <<>>
    ELSE LET n == Len(msgs)
         IN InsertByBase(msgs[n], SortIndex(SubSeq(msgs, 1, n - 1)))

\* the test of line 261 dropped: every load extends the store
ExtendsOnLoadAlways(format) == TRUE

\* line 261: if format == 'grib'
ExtendsOnLoad(format) == format = "grib"

\* load(filepaths, format): format is <<>> for None
LoadResult(store, idx, filepaths, format) ==
    LET fmt == IF format = <<>> THEN InferFormat(filepaths) ELSE format[1]
        st0 == [err |-> "", msgs |-> store, index |-> idx, loaded |-> <<>>,
                format |-> fmt, grib_reader |-> (format = <<>> /\ fmt = "grib")]
    IN IF fmt = "?" THEN [st0 EXCEPT !.err = "ValueError"]
       ELSE LET st == ReadFiles(st0, filepaths, fmt, 1)
            IN IF st.err # "" THEN st
               ELSE IF st.index = "None" THEN [st EXCEPT !.err = "AttributeError"]
               ELSE LET x == IF ExtendsOnLoad(fmt) THEN ExtendParameters(st.msgs)
                             ELSE [err |-> "", msgs |-> st.msgs]
                    IN IF x.err # "" THEN [st EXCEPT !.err = x.err]
                       ELSE [st EXCEPT !.msgs = SortIndex(x.msgs),
                                       !.index = "validDateTime"]

FileLists == UNION {[1..n -> Files] : n \in 0..MaxFiles}

Load ==
    /\ ret.op = "idle"
    /\ \E filepaths \in FileLists, format \in {<<>>} \cup {<<f>> : f \in Formats} :
          /\ nfiles + Len(filepaths) <= MaxFiles
          /\ LET r == LoadResult(grib_msgs, index, filepaths, format)
             IN /\ grib_msgs' = r.msgs
                /\ index' = r.index
                /\ ret' = [op |-> "load", err |-> r.err, format |-> r.format,
                           loaded |-> r.loaded]
          /\ nfiles' = nfiles + Len(filepaths)

\* the call has returned (or raised) and the caller goes on
Return ==
    /\ ret.op \in {"load", "get_actual", "get_forecast"}
    /\ ret' = Idle
    /\ UNCHANGED <<grib_msgs, index, nfiles>>

(***************************************************************************)
(* _aggregate_values: the temporal stage.                                  *)
(***************************************************************************)
AggTimes == {"hour", "day", "week"}

\* the label of the bin of pd.Grouper(freq=...): a day's bin is labelled by
\* its midnight, a week's bin (Monday to Sunday, day 0 a Monday) by the
\* midnight of its Sunday
BinLabel(t, freq) ==
    IF freq = "D" THEN Midnight(Date(t))
    ELSE Midnight((Date(t) \div 7) * 7 + 6)

TimeKey(row, freq) ==
    <<BinLabel(row.validDateTime, "D"), BinLabel(row.validityDateTime, freq),
      row.shortName>>

\* an order of the parameter names: the order of the groups of one time bin
NameRank(name) ==
    CASE name = "10u" -> 1 [] name = "10v" -> 2 [] name = "2d" -> 3
      [] name = "2t" -> 4 [] name = "rh" -> 5 [] name = "ws" -> 6 [] OTHER -> 7

TimeKeyLess(a, b) ==
    \/ a[1] < b[1]
    \/ (a[1] = b[1] /\ a[2] < b[2])
    \/ (a[1] = b[1] /\ a[2] = b[2] /\ NameRank(a[3]) < NameRank(b[3]))

RECURSIVE SortedTimeKeys(_)
SortedTimeKeys(K) ==
    IF K = {} THEN <<>>
    ELSE LET k == CHOOSE x \in K : \A y \in K \ {x} : TimeKeyLess(x, y)
         IN <<k>> \o SortedTimeKeys(K \ {k})

\* group['values'].sum(): the elementwise sum, not divided by the count
SumValues(vs) ==
    [i \in 1..BroadcastLenAll(vs) |-> QSum([k \in 1..Len(vs) |-> At(vs[k], i)])]

\* group['values'].mean(): the elementwise mean of the arrays of a group
MeanValues(vs) ==
    [i \in 1..BroadcastLenAll(vs) |->
        QDivInt(QSum([k \in 1..Len(vs) |-> At(vs[k], i)]), Len(vs))]

AggregateValues(weather_result, aggtime) ==
    IF aggtime \notin AggTimes THEN Raise("AssertionError")
    ELSE IF aggtime = "hour" THEN [err |-> "", rows |-> weather_result]
    ELSE LET freq == IF aggtime = "day" THEN "D" ELSE "W"
             n == Len(weather_result)
             keys == SortedTimeKeys({TimeKey(weather_result[k], freq) : k \in 1..n})
             group(g) ==
                 LET at == SelectIdx(n, [k \in 1..n |->
                                 TimeKey(weather_result[k], freq) = keys[g]], 1)
                 IN [k \in 1..Len(at) |-> weather_result[at[k]]]
         IN IF \E g \in 1..Len(keys) :
                 BroadcastLenAll([k \in 1..Len(group(g)) |-> group(g)[k].values]) < 0
            THEN Raise("ValueError")
            ELSE [err |-> "",
                  rows |-> [g \in 1..Len(keys) |->
                     [validDateTime |-> keys[g][1],
                      validityDateTime |-> keys[g][2],
                      shortName |-> keys[g][3],
                      values |-> MeanValues([k \in 1..Len(group(g)) |->
                                               group(g)[k].values]),
                      lats |-> group(g)[1].lats,
                      lons |-> group(g)[1].lons]]]

(***************************************************************************)
(* get_actual and get_forecast.                                            *)
(***************************************************************************)
\* _latslons_from_dict: a list of points to the pair (lats, lons)
LatsLonsFromDict(points) ==
    <<[i \in 1..Len(points) |-> points[i][1]], [i \in 1..Len(points) |-> points[i][2]]>>

\* frame[mask]: a new frame of the rows where the mask holds
BoolIndex(frame, mask) ==
    LET at == SelectIdx(Len(frame), mask, 1)
    IN [k \in 1..Len(at) |-> frame[at[k]]]

\* drop('type', axis=1): the row without its type column
DropType(m) ==
    [shortName |-> m.shortName, values |-> m.values,
     validDateTime |-> m.validDateTime, validityDateTime |-> m.validityDateTime,
     lats |-> m.lats, lons |-> m.lons]

\* tmp_result.drop('type', axis=1, inplace=True) were tmp_result the store's
\* own rows and not a copy: the store loses the column
StoreAfterDropOnView(store, tmp_result) ==
    IF tmp_result = <<>> THEN store
    ELSE [k \in 1..Len(store) |-> DropType(store[k])]

\* the store after the in-place drop and reset_index on tmp_result: boolean
\* indexing made tmp_result a copy, the store's frame is not touched
StoreAfterDrop(store, tmp_result) == store

\* lines 594-602 and 652-660: the two stages on the filtered rows
Aggregate(tmp_result, aggtime, aggloc, interp_points, bounding_box) ==
    LET aggtype == IF aggloc = "bbox" THEN "mean" ELSE "one"
        p == AggregatePoints(tmp_result, aggloc, aggtype, interp_points, bounding_box)
    IN IF p.err # "" THEN p ELSE AggregateValues(p.rows, aggtime)

\* self.grib_msgs.loc[from_date:to_date]: the dates are labels at midnight
SliceByBase(store, from_date, to_date) ==
    BoolIndex(store, [k \in 1..Len(store) |->
        /\ Midnight(from_date) <= store[k].validDateTime
        /\ store[k].validDateTime <= Midnight(to_date)])

\* line 626 without its first comparison: base_date is not compared
ForecastDatesOkNoBase(base_date, from_date, to_date) == from_date <= to_date

\* line 570: assert from_date <= to_date
ActualDatesOk(from_date, to_date) == from_date <= to_date

\* line 626: assert base_date <= from_date <= to_date
ForecastDatesOk(base_date, from_date, to_date) ==
    base_date <= from_date /\ from_date <= to_date

\* interp_points is <<>> for None, else <<list of points>>; so bounding_box
GetActualResult(store, idx, from_date, to_date, aggtime, aggloc, interp_points, bounding_box) ==
    IF ~ActualDatesOk(from_date, to_date) \/ aggtime \notin AggTimes
       \/ aggloc \notin AggLocs
    THEN [err |-> "AssertionError", rows |-> <<>>, store |-> store]
    ELSE IF aggloc = "points" /\ interp_points = <<>>
    THEN [err |-> "ValueError", rows |-> <<>>, store |-> store]
    ELSE IF idx = "None"
    THEN [err |-> "AttributeError", rows |-> <<>>, store |-> store]
    ELSE IF idx = "RangeIndex"
    THEN [err |-> "TypeError", rows |-> <<>>, store |-> store]
    ELSE LET req_period == SliceByBase(store, from_date, to_date)
             sel == BoolIndex(req_period, [k \in 1..Len(req_period) |->
                        Date(req_period[k].validDateTime)
                          = Date(req_period[k].validityDateTime)])
             tmp_result == [k \in 1..Len(sel) |-> DropType(sel[k])]
             pts == IF interp_points = <<>> THEN <<>>
                    ELSE <<LatsLonsFromDict(interp_points[1])>>
             r == Aggregate(tmp_result, aggtime, aggloc, pts, bounding_box)
         IN [err |-> r.err, rows |-> r.rows, store |-> StoreAfterDrop(store, sel)]

GetForecastResult(store, idx, base_date, from_date, to_date, aggtime, aggloc, interp_points, bounding_box) ==
    IF ~ForecastDatesOk(base_date, from_date, to_date)
       \/ aggtime \notin AggTimes \/ aggloc \notin AggLocs
    THEN [err |-> "AssertionError", rows |-> <<>>, store |-> store]
    ELSE IF aggloc = "points" /\ interp_points = <<>>
    THEN [err |-> "ValueError", rows |-> <<>>, store |-> store]
    ELSE IF idx = "None"
    THEN [err |-> "AttributeError", rows |-> <<>>, store |-> store]
    ELSE LET req_period == BoolIndex(store, [k \in 1..Len(store) |->
                                store[k].validDateTime = Midnight(base_date)])
         IN IF idx = "RangeIndex" \/ Len(req_period) = 0
            THEN [err |-> "KeyError", rows |-> <<>>, store |-> store]
            ELSE IF Len(req_period) = 1
            \* one row under the label: .loc gives that row as a Series,
            \* and a Timestamp has no .dt
            THEN [err |-> "AttributeError", rows |-> <<>>, store |-> store]
            ELSE LET sel == BoolIndex(req_period, [k \in 1..Len(req_period) |->
                                /\ Date(req_period[k].validityDateTime) >= from_date
                                /\ Date(req_period[k].validityDateTime) <= to_date])
                     tmp_result == [k \in 1..Len(sel) |-> DropType(sel[k])]
                     pts == IF interp_points = <<>> THEN <<>>
                            ELSE <<LatsLonsFromDict(interp_points[1])>>
                     r == Aggregate(tmp_result, aggtime, aggloc, pts, bounding_box)
                 IN [err |-> r.err, rows |-> r.rows,
                     store |-> StoreAfterDrop(store, sel)]

\* the spatial arguments of the queries of the model
PointLists == {<<<<461000, 149000>>, <<460200, 149600>>>>}

QueryBoxes == {<<<<460000, 148000>>, <<462000, 150000>>>>,
               <<<<460500, 148500>>, <<458000, 150000>>>>}

QueryArgs ==
    {[aggloc |-> "grid", interp_points |-> <<>>, bounding_box |-> <<>>],
     [aggloc |-> "country", interp_points |-> <<>>, bounding_box |-> <<>>],
     [aggloc |-> "points", interp_points |-> <<>>, bounding_box |-> <<>>],
     [aggloc |-> "bbox", interp_points |-> <<>>, bounding_box |-> <<>>]}
    \cup {[aggloc |-> "points", interp_points |-> <<p>>, bounding_box |-> <<>>] :
            p \in PointLists}
    \cup {[aggloc |-> "bbox", interp_points |-> <<>>, bounding_box |-> <<b>>] :
            b \in QueryBoxes}

GetActual ==
    /\ ret.op = "idle"
    /\ \E from_date \in Days, to_date \in Days, aggtime \in AggTimes, a \in QueryArgs :
          LET r == GetActualResult(grib_msgs, index, from_date, to_date, aggtime,
                                   a.aggloc, a.interp_points, a.bounding_box)
          IN /\ ret' = [op |-> "get_actual", err |-> r.err, rows |-> r.rows,
                        base_date |-> from_date, from_date |-> from_date,
                        to_date |-> to_date, aggtime |-> aggtime,
                        aggloc |-> a.aggloc, interp_points |-> a.interp_points,
                        bounding_box |-> a.bounding_box]
             /\ grib_msgs' = r.store
    /\ UNCHANGED <<index, nfiles>>

GetForecast ==
    /\ ret.op = "idle"
    /\ \E base_date \in Days, from_date \in Days, to_date \in Days,
          aggtime \in AggTimes, a \in QueryArgs :
          LET r == GetForecastResult(grib_msgs, index, base_date, from_date, to_date,
                                     aggtime, a.aggloc, a.interp_points,
                                     a.bounding_box)
          IN /\ ret' = [op |-> "get_forecast", err |-> r.err, rows |-> r.rows,
                        base_date |-> base_date, from_date |-> from_date,
                        to_date |-> to_date, aggtime |-> aggtime,
                        aggloc |-> a.aggloc, interp_points |-> a.interp_points,
                        bounding_box |-> a.bounding_box]
             /\ grib_msgs' = r.store
    /\ UNCHANGED <<index, nfiles>>

Next == Load \/ GetActual \/ GetForecast \/ Return

Spec == Init /\ [][Next]_vars

(***************************************************************************)
(* Properties of the store and the queries.                                *)
(***************************************************************************)
BagOfSeq(s) == [x \in Range(s) |-> Cardinality({i \in 1..Len(s) : s[i] = x})]

\* the messages named name in the group key of msgs
CountIn(msgs, key, name) ==
    Cardinality({i \in 1..Len(msgs) : msgs[i].shortName = name /\ GroupKey(msgs[i]) = key})

GroupKeys(msgs) == {GroupKey(msgs[i]) : i \in 1..Len(msgs)}

Rules == {[out |-> "ws", in1 |-> "10u", in2 |-> "10v"],
          [out |-> "rh", in1 |-> "2t", in2 |-> "2d"]}

\* C2: a load of grib files that succeeds has synthesized exactly one output
\* message in every (validDateTime, validityDateTime) group that held both
\* inputs of a rule and not its output when the derived-parameter step ran
\* (the store before the call, then the messages read), whatever the other
\* groups of the store hold.
C2_ExtendDecidesPerGroup ==
    [][(ret'.op = "load" /\ ret'.err = "" /\ ret'.format = "grib") =>
        LET pre == grib_msgs \o ret'.loaded
        IN \A r \in Rules : \A g \in GroupKeys(pre) :
              (CountIn(pre, g, r.in1) > 0 /\ CountIn(pre, g, r.in2) > 0
                 /\ CountIn(pre, g, r.out) = 0)
              => CountIn(grib_msgs', g, r.out) = 1]_vars

\* C3: when the derived-parameter step runs on a store with no output of a
\* rule, one group holding both inputs of the rule and another group only
\* one of them, the step raises nothing, adds no output message to the
\* group lacking an input and extends the groups holding both.
C3_MissingInputSkipped ==
    [][(ret'.op = "load" /\ ret'.format = "grib" /\ ret'.err \in {"", "IndexError"}) =>
        LET pre == grib_msgs \o ret'.loaded
        IN \A r \in Rules : \A g \in GroupKeys(pre) :
              (/\ \A k \in GroupKeys(pre) : CountIn(pre, k, r.out) = 0
               /\ (CountIn(pre, g, r.in1) > 0) # (CountIn(pre, g, r.in2) > 0)
               /\ \E h \in GroupKeys(pre) :
                     CountIn(pre, h, r.in1) > 0 /\ CountIn(pre, h, r.in2) > 0)
              => /\ ret'.err = ""
                 /\ CountIn(grib_msgs', g, r.out) = 0
                 /\ \A h \in GroupKeys(pre) :
                       (CountIn(pre, h, r.in1) > 0 /\ CountIn(pre, h, r.in2) > 0)
                       => CountIn(grib_msgs', h, r.out) = 1]_vars

IsQuery(r) == r.op \in {"get_actual", "get_forecast"}

\* the arguments of a query are valid: ordered dates, target points given
\* for aggloc 'points', a rectangle given for aggloc 'bbox'
ValidArgs(r) ==
    /\ r.from_date <= r.to_date
    /\ r.op = "get_forecast" => r.base_date <= r.from_date
    /\ r.aggloc = "points" => r.interp_points # <<>>
    /\ r.aggloc = "bbox" => r.bounding_box # <<>>

\* the message is in the time window of the query, by calendar days
InWindow(m, r) ==
    IF r.op = "get_actual"
    THEN /\ r.from_date <= Date(m.validDateTime)
         /\ Date(m.validDateTime) <= r.to_date
         /\ Date(m.validityDateTime) = Date(m.validDateTime)
    ELSE /\ Date(m.validDateTime) = r.base_date
         /\ r.from_date <= Date(m.validityDateTime)
         /\ Date(m.validityDateTime) <= r.to_date

EmptyWindow(r, store) == \A i \in 1..Len(store) : ~InWindow(store[i], r)

\* C4 as claimed: a query with valid arguments whose window matches no
\* message of a loaded store returns an empty record set and does not fail.
C4_EmptyWindowReturnsEmpty ==
    (IsQuery(ret) /\ index = "validDateTime" /\ ValidArgs(ret)
        /\ EmptyWindow(ret, grib_msgs))
    => (ret.err = "" /\ ret.rows = <<>>)

\* C4 as amended: a query with valid arguments whose window matches no
\* message of a loaded store raises an error and returns no record set,
\* for every aggloc ('grid' included) and every aggtime.
C4_EmptyWindowRaises ==
    (IsQuery(ret) /\ index = "validDateTime" /\ ValidArgs(ret)
        /\ EmptyWindow(ret, grib_msgs))
    => (ret.err # "" /\ ret.rows = <<>>)

\* get_actual with aggloc 'grid' and aggtime 'hour' on a loaded store, no
\* stored message in its window
C4_Witness ==
    /\ ret.op = "get_actual"
    /\ index = "validDateTime"
    /\ ValidArgs(ret)
    /\ ret.aggloc = "grid"
    /\ ret.aggtime = "hour"
    /\ EmptyWindow(ret, grib_msgs)

\* C5: a get_actual or get_forecast call, whether it returns or raises,
\* leaves the store as it was: the same messages with the same fields (the
\* 'type' field and the values included), in the same order, under the same
\* index.
C5_QueriesKeepStore ==
    [][IsQuery(ret') => (grib_msgs' = grib_msgs /\ index' = index)]_vars

\* a query that dropped the 'type' column of its rows and aggregated them by
\* day has returned rows, and the stored messages still carry their type
C5_Witness ==
    /\ IsQuery(ret)
    /\ ret.err = ""
    /\ ret.aggtime = "day"
    /\ Len(ret.rows) > 0
    /\ \A i \in 1..Len(grib_msgs) : grib_msgs[i].type \in {"an", "fc"}

\* C6: a load call that raises leaves the store as it was before the call,
\* its messages and its index.
C6_FailedLoadKeepsStore ==
    [][(ret'.op = "load" /\ ret'.err # "") =>
          (grib_msgs' = grib_msgs /\ index' = index)]_vars

DerivedNames == {"ws", "rh"}

\* the messages of the bag that are no derived parameter
BaseOnly(bag) ==
    [m \in {x \in DOMAIN bag : x.shortName \notin DerivedNames} |-> bag[m]]

\* C7 as claimed: a successful load that reads messages on an already loaded
\* extractor leaves exactly the messages read in that call, plus derived
\* messages, and none of the messages loaded before.
C7_LoadReplacesStore ==
    [][(ret'.op = "load" /\ ret'.err = "" /\ index = "validDateTime"
          /\ Len(ret'.loaded) > 0) =>
          /\ BagOfSeq(ret'.loaded) \sqsubseteq BagOfSeq(grib_msgs')
          /\ BaseOnly(BagOfSeq(grib_msgs') (-) BagOfSeq(ret'.loaded)) = EmptyBag]_vars

\* C7 as amended: a successful load appends: the store then holds every
\* message it held before the call and every message read in the call, and
\* any further message is a derived one (ws or rh).
C7_LoadAppends ==
    [][(ret'.op = "load" /\ ret'.err = "") =>
          LET old == BagOfSeq(grib_msgs) (+) BagOfSeq(ret'.loaded)
          IN /\ old \sqsubseteq BagOfSeq(grib_msgs')
             /\ BaseOnly(BagOfSeq(grib_msgs') (-) old) = EmptyBag]_vars

\* a successful load that read messages into a store which holds a base
\* message the call did not read
C7_Witness ==
    /\ ret.op = "load"
    /\ ret.err = ""
    /\ Len(ret.loaded) > 0
    /\ \E i \in 1..Len(grib_msgs) :
          /\ grib_msgs[i].shortName \notin DerivedNames
          /\ \A k \in 1..Len(ret.loaded) : ret.loaded[k] # grib_msgs[i]

\* C10: get_actual with aggloc 'grid' and aggtime 'hour' on a loaded store,
\* some stored message being in its window, returns exactly the stored
\* messages whose validDateTime is on a day of [from_date, to_date], at any
\* time of day, and whose validityDateTime is on the same day.
C10_ActualWholeDays ==
    (ret.op = "get_actual" /\ index = "validDateTime" /\ ret.from_date <= ret.to_date
        /\ ret.aggloc = "grid" /\ ret.aggtime = "hour"
        /\ ~EmptyWindow(ret, grib_msgs))
    => /\ ret.err = ""
       /\ BagOfSeq(ret.rows) =
            BagOfSeq(BoolIndex([i \in 1..Len(grib_msgs) |-> DropType(grib_msgs[i])],
                               [i \in 1..Len(grib_msgs) |-> InWindow(grib_msgs[i], ret)]))

\* the message was issued at base_date (the label of its midnight) and is
\* valid on a day of [from_date, to_date]
ForecastMatch(m, r) ==
    /\ m.validDateTime = Midnight(r.base_date)
    /\ r.from_date <= Date(m.validityDateTime)
    /\ Date(m.validityDateTime) <= r.to_date

\* C11: get_forecast with aggloc 'grid' and aggtime 'hour' on a loaded
\* store, some stored message being issued at base_date and valid in
\* [from_date, to_date], returns exactly the stored messages issued at
\* base_date whose validityDateTime is on a day of [from_date, to_date], and
\* no message of another base date.
C11_ForecastExactlyBaseDate ==
    (ret.op = "get_forecast" /\ index = "validDateTime"
        /\ ret.base_date <= ret.from_date /\ ret.from_date <= ret.to_date
        /\ ret.aggloc = "grid" /\ ret.aggtime = "hour"
        /\ \E i \in 1..Len(grib_msgs) : ForecastMatch(grib_msgs[i], ret))
    => /\ ret.err = ""
       /\ BagOfSeq(ret.rows) =
            BagOfSeq(BoolIndex([i \in 1..Len(grib_msgs) |-> DropType(grib_msgs[i])],
                               [i \in 1..Len(grib_msgs) |->
                                   ForecastMatch(grib_msgs[i], ret)]))

\* every stored message is issued on a day of [from_date, to_date] and valid
\* on the day it was issued: the window of get_actual is the full window
FullWindow(r, store) ==
    \A i \in 1..Len(store) :
        /\ r.from_date <= Date(store[i].validDateTime)
        /\ Date(store[i].validDateTime) <= r.to_date
        /\ Date(store[i].validityDateTime) = Date(store[i].validDateTime)

\* C12: get_actual over the full window of a loaded store, with aggloc
\* 'grid' and aggtime 'hour', returns exactly the stored messages, in the
\* order of the store, every field but 'type' unchanged.
C12_RoundTripIdentity ==
    (ret.op = "get_actual" /\ index = "validDateTime"
        /\ ret.aggloc = "grid" /\ ret.aggtime = "hour"
        /\ FullWindow(ret, grib_msgs))
    => /\ ret.err = ""
       /\ ret.rows = [i \in 1..Len(grib_msgs) |-> DropType(grib_msgs[i])]

\* C13: get_forecast with from_date = base_date = to_date, aggloc 'grid' and
\* aggtime 'hour', on a loaded store holding a message issued at base_date
\* and valid on base_date, returns only messages valid on base_date and
\* every stored message issued at base_date and valid on base_date.
C13_SameDayLead ==
    (ret.op = "get_forecast" /\ index = "validDateTime"
        /\ ret.base_date = ret.from_date /\ ret.from_date = ret.to_date
        /\ ret.aggloc = "grid" /\ ret.aggtime = "hour"
        /\ \E i \in 1..Len(grib_msgs) : ForecastMatch(grib_msgs[i], ret))
    => /\ ret.err = ""
       /\ \A k \in 1..Len(ret.rows) :
             Date(ret.rows[k].validityDateTime) = ret.base_date
       /\ \A i \in 1..Len(grib_msgs) :
             ForecastMatch(grib_msgs[i], ret)
             => \E k \in 1..Len(ret.rows) : ret.rows[k] = DropType(grib_msgs[i])

(***************************************************************************)
(* Properties of the rectangle of bbox mode, under SpecAgg.                *)
(***************************************************************************)
\* the 1-based grid positions strictly inside the rectangle with corners bb
StrictlyInsideBox(lats, lons, bb) ==
    {i \in 1..Len(lats) :
        /\ Min2(bb[1][1], bb[2][1]) < lats[i] /\ lats[i] < Max2(bb[1][1], bb[2][1])
        /\ Min2(bb[1][2], bb[2][2]) < lons[i] /\ lons[i] < Max2(bb[1][2], bb[2][2])}

\* no edge of the rectangle is below the lowest or above the highest
\* latitude (longitude) of the grid
EdgesInGrid(lats, lons, bb) ==
    /\ \A c \in 1..2 :
          /\ \E i \in 1..Len(lats) : lats[i] <= bb[c][1]
          /\ \E i \in 1..Len(lats) : lats[i] >= bb[c][1]
          /\ \E i \in 1..Len(lons) : lons[i] <= bb[c][2]
          /\ \E i \in 1..Len(lons) : lons[i] >= bb[c][2]

\* a call of the spatial stage in bbox mode, a rectangle given
BboxCall(r) ==
    /\ r.op = "_aggregate_points"
    /\ r.aggloc = "bbox"
    /\ r.bounding_box # <<>>

\* C14 as claimed: a rectangle within the grid whose only grid points lie
\* on its boundary fails with the 'contains no points' assertion: a point
\* on an edge or a corner is not selected.
C14_BoundaryPointsExcluded ==
    (BboxCall(ret)
        /\ EdgesInGrid(GridLats, GridLons, ret.bounding_box[1])
        /\ StrictlyInsideBox(GridLats, GridLons, ret.bounding_box[1]) = {})
    => ret.err = "AssertionError"

\* C14 as amended: the points selected are those of the closed rectangle,
\* edges and corners included: for a rectangle within the grid the call
\* fails exactly when no grid point is inside the rectangle or on its
\* boundary, so a rectangle whose only grid points lie on its boundary
\* succeeds.
C14_BoundaryPointsSelected ==
    (BboxCall(ret) /\ EdgesInGrid(GridLats, GridLons, ret.bounding_box[1]))
    => (ret.err = "" <=> InsideBox(GridLats, GridLons, ret.bounding_box[1]) # {})

\* a rectangle with a grid point on its boundary and none strictly inside
\* was aggregated with policy mean and gave a value
C14_Witness ==
    /\ BboxCall(ret)
    /\ ret.aggtype = "mean"
    /\ EdgesInGrid(GridLats, GridLons, ret.bounding_box[1])
    /\ StrictlyInsideBox(GridLats, GridLons, ret.bounding_box[1]) = {}
    /\ InsideBox(GridLats, GridLons, ret.bounding_box[1]) # {}
    /\ ret.err = ""
    /\ Len(ret.rows) = 1

\* C15: in bbox mode the call fails with an assertion error and returns no
\* row whenever an edge of the rectangle is outside the latitude or the
\* longitude range of the grid, or no grid point is in the rectangle.
C15_BboxValidation ==
    (BboxCall(ret)
        /\ (\/ ~EdgesInGrid(GridLats, GridLons, ret.bounding_box[1])
            \/ InsideBox(GridLats, GridLons, ret.bounding_box[1]) = {}))
    => (ret.err = "AssertionError" /\ ret.rows = <<>>)

\* a rectangle within the ranges of the grid that holds no grid point was
\* rejected
C15_Witness ==
    /\ BboxCall(ret)
    /\ EdgesInGrid(GridLats, GridLons, ret.bounding_box[1])
    /\ InsideBox(GridLats, GridLons, ret.bounding_box[1]) = {}
    /\ ret.err = "AssertionError"

(***************************************************************************)
(* The validation of the dates of a query, under Spec.                     *)
(***************************************************************************)
\* the dates of the call are not in the order the query requires
DatesOutOfOrder(r) ==
    \/ (r.op = "get_actual" /\ r.from_date > r.to_date)
    \/ (r.op = "get_forecast"
          /\ ~(r.base_date <= r.from_date /\ r.from_date <= r.to_date))

\* C16: get_actual with from_date > to_date, and get_forecast without
\* base_date <= from_date <= to_date, raise the assertion error of the
\* argument checks and return no row, whatever the store holds: the error
\* is that of the checks also on an extractor that was never loaded, where
\* reading the store would raise another error.
C16_DatesValidatedFirst ==
    DatesOutOfOrder(ret) => (ret.err = "AssertionError" /\ ret.rows = <<>>)

\* get_forecast with base_date after from_date was rejected on an extractor
\* that holds no frame
C16_Witness ==
    /\ ret.op = "get_forecast"
    /\ ret.base_date > ret.from_date
    /\ ret.from_date <= ret.to_date
    /\ index = "None"
    /\ ret.err = "AssertionError"

(***************************************************************************)
(* _aggregate_values as a pure function: a frame of one to three rows is   *)
(* drawn in the initial state and the one action applies the function.     *)
(***************************************************************************)
\* (validDateTime, validityDateTime) of the rows: two rows of one day, a
\* row valid the next day, a row valid a week later, a row issued the next
\* day
TimePairs ==
    {<<0, 0>>, <<0, 1>>, <<1, Midnight(1)>>, <<0, Midnight(7)>>,
     <<Midnight(1), Midnight(1)>>}

\* rows of one value on one point; the point differs with the value
TimeRows ==
    {[shortName |-> n, values |-> <<QInt(v)>>,
      validDateTime |-> t[1], validityDateTime |-> t[2],
      lats |-> <<460000 + v>>, lons |-> <<149000>>] :
        n \in {"2t", "ws"}, v \in {2, 4}, t \in TimePairs}

TimeFrames == UNION {[1..n -> TimeRows] : n \in 1..3}

InitTime ==
    /\ grib_msgs = <<>>
    /\ index = "None"
    /\ nfiles = 0
    /\ \E f \in TimeFrames, aggtime \in AggTimes :
          ret = [op |-> "frame", err |-> "", rows |-> <<>>,
                 weather_result |-> f, aggtime |-> aggtime]

CallAggregateValues ==
    /\ ret.op = "frame"
    /\ LET r == AggregateValues(ret.weather_result, ret.aggtime)
       IN ret' = [ret EXCEPT !.op = "_aggregate_values", !.err = r.err,
                             !.rows = r.rows]
    /\ UNCHANGED <<grib_msgs, index, nfiles>>

NextTime == CallAggregateValues

SpecTime == InitTime /\ [][NextTime]_vars

\* the bucket of a timestamp: its day, or its week (Monday to Sunday, day 0
\* a Monday)
Bucket(t, aggtime) == IF aggtime = "day" THEN Date(t) ELSE Date(t) \div 7

\* the triple a row is grouped by
Triple(row, aggtime) ==
    <<Date(row.validDateTime), Bucket(row.validityDateTime, aggtime), row.shortName>>

\* the positions of the rows of the frame that are in the triple
Members(frame, aggtime, tr) ==
    {i \in 1..Len(frame) : Triple(frame[i], aggtime) = tr}

\* C17: with granularity day or week the temporal stage returns exactly one
\* row per distinct triple (day of validDateTime, day or week of
\* validityDateTime, shortName) of its input; the row's value is the
\* arithmetic mean of the values of the rows of the triple, its lats and
\* lons are those of the first row of the triple.
C17_OneMeanRowPerTriple ==
    (ret.op = "_aggregate_values" /\ ret.aggtime \in {"day", "week"}) =>
        LET in == ret.weather_result
            triples == {Triple(in[i], ret.aggtime) : i \in 1..Len(in)}
        IN /\ ret.err = ""
           /\ Len(ret.rows) = Cardinality(triples)
           /\ \A tr \in triples :
                 LET at == Members(in, ret.aggtime, tr)
                     first == CHOOSE i \in at : \A j \in at : i <= j
                 IN \E k \in 1..Len(ret.rows) :
                       /\ Triple(ret.rows[k], ret.aggtime) = tr
                       /\ ret.rows[k].values =
                            <<QDivInt(QSumOver([i \in 1..Len(in) |-> in[i].values[1]], at),
                                      Cardinality(at))>>
                       /\ ret.rows[k].lats = in[first].lats
                       /\ ret.rows[k].lons = in[first].lons

\* two rows of one parameter and one day with values [2] and [4], in this
\* order, were aggregated by day into one row of value [3]
C17_Witness ==
    /\ ret.op = "_aggregate_values"
    /\ ret.aggtime = "day"
    /\ Len(ret.weather_result) = 2
    /\ ret.weather_result[1].values = <<QInt(2)>>
    /\ ret.weather_result[2].values = <<QInt(4)>>
    /\ Len(ret.rows) = 1
    /\ ret.rows[1].values = <<QInt(3)>>

(***************************************************************************)
(* Policy 'one' of the spatial stage, under SpecAgg.                       *)
(***************************************************************************)
\* the target points of a call with aggloc 'points' or 'country'
TargetLats(r) == IF r.aggloc = "country" THEN <<CountryLat>> ELSE r.interp_points[1][1]

TargetLons(r) == IF r.aggloc = "country" THEN <<CountryLon>> ELSE r.interp_points[1][2]

\* grid point j is at least as near to the point (lat, lon) as every other
\* grid point
IsNearest(j, lat, lon) ==
    \A i \in 1..Len(GridLats) :
        (GridLats[j] - lat) * (GridLats[j] - lat) + (GridLons[j] - lon) * (GridLons[j] - lon)
        <= (GridLats[i] - lat) * (GridLats[i] - lat) + (GridLons[i] - lon) * (GridLons[i] - lon)

\* a call with policy 'one' to target points
OneCall(r) ==
    /\ r.op = "_aggregate_points"
    /\ r.aggtype = "one"
    /\ (r.aggloc = "country" \/ (r.aggloc = "points" /\ r.interp_points # <<>>))

\* C18: with policy 'one' and aggloc 'points' or 'country' the call
\* succeeds; every output row has one value per target point, in the order
\* of the targets, each the unmodified value of a grid point nearest to
\* that target; a target that coincides with a grid point gets that grid
\* point's value; the row's lats and lons are the targets.
C18_OneIsNearestValue ==
    OneCall(ret) =>
        /\ ret.err = ""
        /\ Len(ret.rows) = Len(ret.weather_result)
        /\ \A k \in 1..Len(ret.rows) :
              /\ Len(ret.rows[k].values) = Len(TargetLats(ret))
              /\ ret.rows[k].lats = TargetLats(ret)
              /\ ret.rows[k].lons = TargetLons(ret)
              /\ \A t \in 1..Len(TargetLats(ret)) :
                    /\ \E j \in 1..Len(GridLats) :
                          /\ IsNearest(j, TargetLats(ret)[t], TargetLons(ret)[t])
                          /\ ret.rows[k].values[t] = ret.weather_result[k].values[j]
                    /\ \A j \in 1..Len(GridLats) :
                          (GridLats[j] = TargetLats(ret)[t] /\ GridLons[j] = TargetLons(ret)[t])
                          => ret.rows[k].values[t] = ret.weather_result[k].values[j]

\* two targets, the second on the third grid point, whose value differs from
\* the values of the first and the second grid point
C18_Witness ==
    /\ OneCall(ret)
    /\ ret.aggloc = "points"
    /\ Len(TargetLats(ret)) = 2
    /\ TargetLats(ret)[2] = GridLats[3]
    /\ TargetLons(ret)[2] = GridLons[3]
    /\ ret.weather_result[1].values[3] # ret.weather_result[1].values[1]
    /\ ret.weather_result[1].values[3] # ret.weather_result[1].values[2]
    /\ ret.err = ""
    /\ ret.rows[1].values[2] = ret.weather_result[1].values[3]

(***************************************************************************)
(* The wind speed values and the order of the store, under Spec.           *)
(***************************************************************************)
\* sqrt(u^2 + v^2) at every grid point
WindSpeed(u, v) ==
    [i \in 1..Len(u) |-> QSqrt(QAdd(QMul(u[i], u[i]), QMul(v[i], v[i])))]

\* C19: after a successful load of grib files, every ws message the call
\* synthesized (in the store, neither there before the call nor read from a
\* file) in a group that holds a 10u and a 10v message has the values
\* sqrt(u^2 + v^2), per grid point, of one 10u and one 10v message of the
\* group, however many 10u and 10v messages the group holds.
C19_WsOfOnePair ==
    [][(ret'.op = "load" /\ ret'.err = "" /\ ret'.format = "grib") =>
        \A k \in 1..Len(grib_msgs') :
            LET w == grib_msgs'[k]
                g == GroupKey(w)
            IN (/\ w.shortName = "ws"
                /\ w \notin Range(grib_msgs)
                /\ w \notin Range(ret'.loaded)
                /\ CountIn(grib_msgs', g, "10u") > 0
                /\ CountIn(grib_msgs', g, "10v") > 0)
               => \E a \in 1..Len(grib_msgs'), b \in 1..Len(grib_msgs') :
                     /\ grib_msgs'[a].shortName = "10u" /\ GroupKey(grib_msgs'[a]) = g
                     /\ grib_msgs'[b].shortName = "10v" /\ GroupKey(grib_msgs'[b]) = g
                     /\ w.values = WindSpeed(grib_msgs'[a].values, grib_msgs'[b].values)]_vars

\* the frame is in ascending order of validDateTime
SortedByBase(msgs) ==
    \A i \in 1..Len(msgs) : \A j \in 1..Len(msgs) :
        i < j => msgs[i].validDateTime <= msgs[j].validDateTime

\* C20: after a successful load the store is indexed by validDateTime and in
\* ascending order of validDateTime, the derived messages included; the
\* store keeps this order until the next load.
C20_StoreSortedByBase ==
    /\ (ret.op = "load" /\ ret.err = "") => index = "validDateTime"
    /\ index = "validDateTime" => SortedByBase(grib_msgs)

\* a successful load that read its messages in descending order of
\* validDateTime and appended a ws message
C20_Witness ==
    /\ ret.op = "load"
    /\ ret.err = ""
    /\ ~SortedByBase(ret.loaded)
    /\ \E k \in 1..Len(grib_msgs) :
          grib_msgs[k].shortName = "ws" /\ grib_msgs[k] \notin Range(ret.loaded)

(***************************************************************************)
(* The derived-parameter step: what it keeps and when it runs.             *)
(***************************************************************************)
\* C21: the derived-parameter step, when it returns, is append-only: its
\* output begins with its input, every message with all its fields and in
\* the same order, and every message after that has shortName ws or rh.
C21_ExtendAppendsOnly ==
    (ret.op = "_extend_parameters" /\ ret.err = "") =>
        /\ Len(ret.msgs) >= Len(ret.input)
        /\ SubSeq(ret.msgs, 1, Len(ret.input)) = ret.input
        /\ \A k \in (Len(ret.input) + 1)..Len(ret.msgs) :
              ret.msgs[k].shortName \in DerivedNames

\* the first application added one ws message after three input messages,
\* one of them no wind component
C21_Witness ==
    /\ ret.op = "_extend_parameters"
    /\ ret.n = 1
    /\ ret.err = ""
    /\ Len(ret.input) = 3
    /\ \E k \in 1..3 : ret.input[k].shortName \notin {"10u", "10v"}
    /\ Len(ret.msgs) = 4
    /\ ret.msgs[4].shortName = "ws"

\* the number of messages of the frame with the shortName
NameCount(msgs, name) == Cardinality({i \in 1..Len(msgs) : msgs[i].shortName = name})

\* C22: a successful load whose format is not 'grib' (pkl, owm) adds to the
\* store as many messages as it read and no ws or rh but those it read; a
\* successful load whose format is 'grib' extends the whole accumulated
\* store: for a rule whose two inputs are in the store and whose output is
\* nowhere in it, every group holding an input of the rule, messages of
\* earlier loads included, then holds one output message.
C22_ExtendOnlyOnGribLoad ==
    [][(ret'.op = "load" /\ ret'.err = "") =>
        LET pre == grib_msgs \o ret'.loaded
        IN /\ ret'.format # "grib" =>
                 /\ Len(grib_msgs') = Len(pre)
                 /\ \A n \in DerivedNames : NameCount(grib_msgs', n) = NameCount(pre, n)
           /\ ret'.format = "grib" =>
                 \A r \in Rules :
                    (/\ \E i \in 1..Len(pre) : pre[i].shortName = r.in1
                     /\ \E i \in 1..Len(pre) : pre[i].shortName = r.in2
                     /\ \A i \in 1..Len(pre) : pre[i].shortName # r.out)
                    => \A g \in GroupKeys(pre) :
                          (CountIn(pre, g, r.in1) + CountIn(pre, g, r.in2) > 0)
                          => CountIn(grib_msgs', g, r.out) = 1]_vars

\* a successful load of format pkl left a group with 10u and 10v and no ws,
\* and a group with 2t and 2d and no rh, in a store indexed for queries
C22_Witness ==
    /\ ret.op = "load"
    /\ ret.err = ""
    /\ ret.format = "pkl"
    /\ index = "validDateTime"
    /\ \E g \in GroupKeys(grib_msgs) :
          /\ CountIn(grib_msgs, g, "10u") > 0 /\ CountIn(grib_msgs, g, "10v") > 0
          /\ CountIn(grib_msgs, g, "ws") = 0
          /\ CountIn(grib_msgs, g, "2t") > 0 /\ CountIn(grib_msgs, g, "2d") > 0
          /\ CountIn(grib_msgs, g, "rh") = 0

====
